---- MODULE Spec2Model ----
(***************************************************************************)
(* Model of CacheApi (src/src/index.ts): a disk-backed cache of JSON       *)
(* responses.  getData decides between serving the data artifact from disk *)
(* and fetching it over the network, persists successful responses         *)
(* together with a metadata artifact {lastFetched}, and falls back to the  *)
(* data artifact when the network path fails.                              *)
(*                                                                         *)
(* Time is in milliseconds (Date.getTime()).  File texts are strings, JSON *)
(* values are records [type, v]; request paths and file names are          *)
(* sequences of one-character strings.                                     *)
(***************************************************************************)
EXTENDS Integers, Sequences, FiniteSets, TLC

VARIABLES
    maxAge,     \* this.maxAge: [set, sec], set = FALSE when the constructor got none
    now,        \* the wall clock, new Date().getTime()
    dirs,       \* the cache folders that exist on disk
    disk,       \* file identity -> [data: text or NoFile, meta: metadata file]
    calls,      \* per caller: the getData call it has in flight, if any
    last,       \* the call that finished most recently
    ncalls,     \* number of getData calls started so far
    nreq,       \* number of network requests issued so far
    netFailed,  \* whether some network request has failed
    overlapped, \* whether two calls have been in flight at the same time
    naming      \* a request path and the names computed from it so far

vars ==
    <<maxAge, now, dirs, disk, calls, last, ncalls, nreq, netFailed, overlapped, naming>>

----------------------------------------------------------------------------
(* Bounds of the model *)

\* getData calls started in one behaviour
MaxCalls == 2
\* the clock stops here
MaxTime == 1000
\* longest request path whose file name is computed
MaxPathLen == 3

\* Date arithmetic of the program
MsPerSecond == 1000
\* diff_in_unit prints the difference with toFixed(2): hundredths of a second
FixedDigits == 2

Callers == {1, 2}

----------------------------------------------------------------------------
(* JSON values and texts *)

JNull == [type |-> "null", v |-> 0]
JFalse == [type |-> "boolean", v |-> 0]
JZero == [type |-> "number", v |-> 0]
JEmptyStr == [type |-> "string", v |-> 0]
JObj1 == [type |-> "object", v |-> 1]
JObj2 == [type |-> "object", v |-> 2]
\* what a JavaScript function returns when it falls off its end
Undefined == [type |-> "undefined", v |-> 0]

\* the JSON values an origin answers with
JsonValues == {JNull, JFalse, JZero, JEmptyStr, JObj1, JObj2}

\* JavaScript truthiness, as tested by `if (data)` and `if (fileContents)`
Truthy(val) ==
    CASE val.type = "object" -> TRUE
      [] val.type = "number" -> val.v # 0
      [] val.type = "boolean" -> val.v # 0
      [] val.type = "string" -> val.v # 0
      [] OTHER -> FALSE

\* JSON.stringify(data, null, 2)
JsonStringify(val) ==
    CASE val = JNull -> "null"
      [] val = JFalse -> "false"
      [] val = JZero -> "0"
      [] val = JEmptyStr -> "\"\""
      [] val = JObj1 -> "{\n  \"id\": 1\n}"
      [] val = JObj2 -> "{\n  \"id\": 2\n}"
      [] OTHER -> "undefined"

\* a file that does not exist
NoFile == "<no file>"
\* an existing file of length 0
EmptyText == ""
\* an existing file whose text is not JSON
CorruptText == "{\"id\":"
\* a file written by another tool: the same value, printed compactly
CompactObj1 == "{\"id\":1}"

\* JSON.parse(text): ok is FALSE where it throws a SyntaxError
JsonParse(text) ==
    CASE text = "null" -> [ok |-> TRUE, val |-> JNull]
      [] text = "false" -> [ok |-> TRUE, val |-> JFalse]
      [] text = "0" -> [ok |-> TRUE, val |-> JZero]
      [] text = "\"\"" -> [ok |-> TRUE, val |-> JEmptyStr]
      [] text = "{\n  \"id\": 1\n}" -> [ok |-> TRUE, val |-> JObj1]
      [] text = CompactObj1 -> [ok |-> TRUE, val |-> JObj1]
      [] text = "{\n  \"id\": 2\n}" -> [ok |-> TRUE, val |-> JObj2]
      [] OTHER -> [ok |-> FALSE, val |-> Undefined]

\* a string is truthy unless it is empty
TextTruthy(text) == text # EmptyText

----------------------------------------------------------------------------
(* The metadata artifact *)

\* kinds of metadata file: absent; not JSON; the JSON text null; JSON without
\* a numeric lastFetched; {lastFetched: lf}
NoMeta == [kind |-> "absent", lf |-> 0]
GarbageMeta == [kind |-> "garbage", lf |-> 0]
NullMeta == [kind |-> "null", lf |-> 0]
NoLfMeta == [kind |-> "nolf", lf |-> 0]

\* JSON.stringify({lastFetched: t}, null, 2)
MetaStringify(t) == [kind |-> "lf", lf |-> t]

----------------------------------------------------------------------------
(* Request paths and file identity *)

\* characters replaced by the first regular expression, /[\/*?:"<>|\\]/g
UnsafeChars == {"/", "*", "?", ":", "\"", "<", ">", "|", "\\"}
\* characters matched by \s
WhitespaceChars == {" ", "\t", "\n"}

replaceUnsafe(input) ==
    [i \in 1..Len(input) |-> IF input[i] \in UnsafeChars THEN "_" ELSE input[i]]

RECURSIVE dropWhitespace(_)
dropWhitespace(s) ==
    IF s # <<>> /\ Head(s) \in WhitespaceChars THEN dropWhitespace(Tail(s)) ELSE s

\* .replace(/\s+/g, "_"): every maximal run of whitespace becomes one "_"
RECURSIVE replaceWhitespaceRuns(_)
replaceWhitespaceRuns(s) ==
    IF s = <<>> THEN <<>>
    ELSE IF Head(s) \in WhitespaceChars
         THEN <<"_">> \o replaceWhitespaceRuns(dropWhitespace(s))
         ELSE <<Head(s)>> \o replaceWhitespaceRuns(Tail(s))

\* .replace(/^_/, ""): one leading "_" only
stripLeadingUnderscores_One(s) ==
    IF s # <<>> /\ Head(s) = "_" THEN Tail(s) ELSE s

\* .replace(/^_+/, "")
RECURSIVE stripLeadingUnderscores(_)
stripLeadingUnderscores(s) ==
    IF s # <<>> /\ Head(s) = "_" THEN stripLeadingUnderscores(Tail(s)) ELSE s

sanitizeFilename(input) ==
    stripLeadingUnderscores(replaceWhitespaceRuns(replaceUnsafe(input)))

\* the percent escapes that can be written with the digits 0, 2 and F: the
\* character each decodes to, or "URIError" for a byte that is not UTF-8 alone
PercentEscape(hi, lo) ==
    CASE hi = "2" /\ lo = "0" -> " "
      [] hi = "2" /\ lo = "2" -> "\""
      [] hi = "2" /\ lo = "F" -> "/"
      [] hi = "0" /\ lo = "0" -> "NUL"
      [] hi = "0" /\ lo = "2" -> "STX"
      [] hi = "0" /\ lo = "F" -> "SI"
      [] OTHER -> "URIError"

\* decodeURIComponent(s): ok is FALSE where it throws a URIError
RECURSIVE decodeURIComponent(_)
decodeURIComponent(s) ==
    IF s = <<>> THEN [ok |-> TRUE, str |-> <<>>]
    ELSE IF Head(s) = "%"
         THEN IF Len(s) < 3 \/ PercentEscape(s[2], s[3]) = "URIError"
              THEN [ok |-> FALSE, str |-> <<>>]
              ELSE LET rest == decodeURIComponent(SubSeq(s, 4, Len(s)))
                   IN  [ok |-> rest.ok,
                        str |-> <<PercentEscape(s[2], s[3])>> \o rest.str]
         ELSE LET rest == decodeURIComponent(Tail(s))
              IN  [ok |-> rest.ok, str |-> <<Head(s)>> \o rest.str]

\* this.basePath and this.saveFolderName of the instance
basePath == <<"h">>
saveFolderName == <<"d">>

\* the arguments callers pass to getData
UrlPaths == {<<"/", "a">>}
FolderNames == {<<"f">>}
\* RequestInit values: the default {} and a caller's own
EmptyOption == "{}"
Options == {EmptyOption, "{method:POST}"}

\* const url = `${this.basePath}/${urlPath}`
requestUrl(urlPath) == basePath \o <<"/">> \o urlPath

\* path.join(this.saveFolderName, folderName)
folderPath(folderName) == saveFolderName \o <<"/">> \o folderName

\* the name shared by the two artifacts of an entry, before ".json" and
\* ".meta.json": decodeURIComponent(this.sanitizeFilename(urlPath))
fileBase(urlPath) == decodeURIComponent(sanitizeFilename(urlPath))

\* the suffix of the data artifact
JsonSuffix == <<".", "j", "s", "o", "n">>

\* const fileName = decodeURIComponent(this.sanitizeFilename(urlPath)) + ".json":
\* ok is FALSE where computing it throws
dataFileName(urlPath) ==
    [ok |-> fileBase(urlPath).ok, str |-> fileBase(urlPath).str \o JsonSuffix]

\* request paths as strings: an unsafe character, whitespace, "_", a plain
\* character, and what it takes to write the escapes %2F and %20
PathChars == {"/", " ", "_", "a", "%", "2", "F", "0"}
RECURSIVE StringsUpTo(_)
StringsUpTo(n) ==
    IF n = 0 THEN {<<>>}
    ELSE LET shorter == StringsUpTo(n - 1)
         IN  shorter \cup {Append(x, ch) : x \in shorter, ch \in PathChars}
PathStrings == StringsUpTo(MaxPathLen)

\* callers that ask for several paths: two that differ in a leading "/" and
\* a third one
ManyPaths == {<<"/", "a">>, <<"a">>, <<"b">>}
ManyEntries == {<<folderPath(f), fileBase(p).str>> : f \in FolderNames, p \in ManyPaths}

\* the entries the callers of this model can address
Entries == {<<folderPath(f), fileBase(p).str>> : f \in FolderNames, p \in UrlPaths}
entryOf(urlPath, folderName) == <<folderPath(folderName), fileBase(urlPath).str>>

----------------------------------------------------------------------------
(* Time *)

\* one unit of the printed difference, in milliseconds
RECURSIVE Pow10(_)
Pow10(n) == IF n = 0 THEN 1 ELSE 10 * Pow10(n - 1)
UnitsPerSecond == Pow10(FixedDigits)
MsPerUnit == MsPerSecond \div UnitsPerSecond

\* the instants the clock visits: the whole seconds and, before each, the
\* instants whose distance to it is just below, on and above half a unit
Instants ==
    {t \in 0..MaxTime :
        (t % MsPerSecond) \in {0, MsPerSecond - 1, MsPerSecond - (MsPerUnit \div 2),
                               MsPerSecond - (MsPerUnit \div 2) - 1}}

Abs(x) == IF x < 0 THEN -x ELSE x

\* diff_in_unit(timestamp, metaData, "seconds"): the difference of the two
\* times in seconds printed with two decimals, here as a number of hundredths.
\* toFixed rounds to the nearest hundredth; the operands are floating-point
\* quotients, so a difference exactly between two hundredths goes either way.
diff_in_unit(timestamp, metaData) ==
    LET difference == timestamp - metaData
        mag == Abs(difference)
        q == mag \div MsPerUnit
        r == mag % MsPerUnit
        sign == IF difference < 0 THEN -1 ELSE 1
        rounded == IF 2 * r < MsPerUnit THEN {q}
                   ELSE IF 2 * r > MsPerUnit THEN {q + 1}
                   ELSE {q, q + 1}
    IN  {sign * n : n \in rounded}

----------------------------------------------------------------------------
(* The decision procedure *)

NoMaxAge == [set |-> FALSE, sec |-> 0]
MaxAges == {NoMaxAge, [set |-> TRUE, sec |-> 0], [set |-> TRUE, sec |-> 1]}

\* `if (this.maxAge)`: undefined and 0 are falsy
MaxAgeTruthy(m) == m.set /\ m.sec # 0

\* how a step of a call ends: it resolves with val, rejects with err, or goes
\* on to the network request (via "miss" or "stale")
Resolved(val) == [status |-> "resolved", val |-> val, err |-> "none", via |-> "none"]
Rejected(err) == [status |-> "rejected", val |-> Undefined, err |-> err, via |-> "none"]
ToFetch(via) == [status |-> "fetch", val |-> Undefined, err |-> "none", via |-> via]

\* JSON.parse(fs.readFileSync(filePath, "utf-8")) with no handler of its own
readAndParse(text) ==
    IF text = NoFile THEN Rejected("ENOENT")
    ELSE IF JsonParse(text).ok THEN Resolved(JsonParse(text).val)
    ELSE Rejected("FileSyntaxError")

\* the catch block of checkExistFileAndServeCache: serve the file if it has
\* any text; otherwise log, and fall off the end of the function
catchMetaError(text) ==
    IF text = NoFile THEN Rejected("ENOENT")
    ELSE IF TextTruthy(text) THEN readAndParse(text)
    ELSE Resolved(Undefined)

\* catchFetchError without the fallback: the error is rethrown at once
catchFetchError_Rethrow(text, error) == Rejected(error)

\* catchFetchError guarded by existsSync: a missing file ends the call quietly
catchFetchError_QuietMiss(text, error) ==
    IF text = NoFile THEN Resolved(Undefined)
    ELSE IF TextTruthy(text) THEN readAndParse(text)
    ELSE Rejected(error)

\* the catch block of getData: serve the file if it has any text; otherwise
\* log and rethrow the error of the network path
catchFetchError(text, error) ==
    IF text = NoFile THEN Rejected("ENOENT")
    ELSE IF TextTruthy(text) THEN readAndParse(text)
    ELSE Rejected(error)

\* JSON.parse of the metadata file and the read of .lastFetched throw for a
\* file that is not JSON and for the JSON text null
metaReadThrows(meta) == meta.kind \in {"garbage", "null"}

\* the result of `diff < this.maxAge`: the outcomes the rounding allows.  A
\* lastFetched that is not a number makes diff NaN, and NaN < x is false.
isFresh(meta, m, t) ==
    IF meta.kind # "lf" THEN {FALSE}
    ELSE {Abs(d) < m.sec * UnitsPerSecond : d \in diff_in_unit(t, meta.lf)}

\* checkExistFileAndServeCache for an entry, at time t: the set of ways it
\* can go
checkExistFileAndServeCache(entry, m, t) ==
    IF entry.data # NoFile
    THEN IF MaxAgeTruthy(m)
         THEN IF entry.meta.kind # "absent"
              THEN IF metaReadThrows(entry.meta)
                   THEN {catchMetaError(entry.data)}
                   ELSE {IF fresh
                         THEN IF readAndParse(entry.data).status = "resolved"
                              THEN readAndParse(entry.data)
                              ELSE catchMetaError(entry.data)
                         ELSE ToFetch("stale") : fresh \in isFresh(entry.meta, m, t)}
              ELSE {Resolved(Undefined)}
         ELSE {readAndParse(entry.data)}
    ELSE {ToFetch("miss")}

\* the RequestInit that checkExistFileAndServeCache hands to
\* getData(url, folderName, {}, true)
forwardedOption(option) == EmptyOption

\* saveData that writes the data file and leaves the metadata file alone
saveData_DataOnly(entry, data, t) ==
    [data |-> JsonStringify(data), meta |-> entry.meta]

\* saveData(filePath, data, metaDataPath) at time t
saveData(entry, data, t) ==
    [data |-> JsonStringify(data), meta |-> MetaStringify(t)]

\* the responses of the origin: a JSON body, or one of the failures of the
\* network path (fetch rejects, !response.ok, response.json() rejects)
NetErrors == {"TransportError", "HttpStatusError", "BodySyntaxError"}
NoResponse == [kind |-> "none", val |-> Undefined, err |-> "none"]
OkResponse(val) == [kind |-> "ok", val |-> val, err |-> "none"]
ErrResponse(err) == [kind |-> "error", val |-> Undefined, err |-> err]
Responses == {OkResponse(v) : v \in JsonValues} \cup {ErrResponse(e) : e \in NetErrors}

\* a getData that removes the entry when it has nothing to save
entryAfterResponse_DropUnsaved(entry, resp, t) ==
    IF resp.kind = "ok" /\ Truthy(resp.val)
    THEN saveData(entry, resp.val, t)
    ELSE [data |-> NoFile, meta |-> NoMeta]

\* the entry after the lines that follow `await response.json()`
entryAfterResponse(entry, resp, t) ==
    IF resp.kind = "ok" /\ Truthy(resp.val) THEN saveData(entry, resp.val, t) ELSE entry

\* the try/catch of getData(..., skipCheck = true) once the response is in
getDataAfterFetch(entry, resp) ==
    IF resp.kind = "ok" THEN Resolved(resp.val) ELSE catchFetchError(entry.data, resp.err)

\* what the caller gets: a call that came from the freshness check returns
\* through `return await this.getData(...)` inside its try block, so a
\* rejection lands in the catch block of checkExistFileAndServeCache
outcomeAfterFetch(entry, resp, via) ==
    LET inner == getDataAfterFetch(entry, resp)
    IN  IF via = "stale" /\ inner.status = "rejected"
        THEN catchMetaError(entry.data)
        ELSE inner

----------------------------------------------------------------------------
(* State *)

EmptyEntry == [data |-> NoFile, meta |-> NoMeta]

\* a caller with no call in flight
IdleCall ==
    [pc |-> "idle", urlPath |-> <<>>, folderName |-> <<>>, option |-> EmptyOption,
     order |-> 0, after |-> 0, pre |-> EmptyEntry, via |-> "none", issued |-> 0,
     reqUrl |-> <<>>, reqOption |-> EmptyOption]

\* before any call has finished
NoLast ==
    [order |-> 0, after |-> 0, urlPath |-> <<>>, folderName |-> <<>>,
     pre |-> EmptyEntry, via |-> "none", issued |-> 0,
     resp |-> NoResponse, status |-> "none", val |-> Undefined, err |-> "none",
     t1 |-> 0]

\* what a storage directory can hold when the instance is constructed:
\* artifacts of earlier runs, possibly removed, truncated or rewritten since
InitDataTexts == {NoFile, EmptyText, CorruptText, CompactObj1, JsonStringify(JZero)}
InitMetas == {NoMeta, GarbageMeta, NullMeta, NoLfMeta, MetaStringify(0), MetaStringify(MaxTime)}

\* no file name is being computed
NoNaming ==
    [stage |-> "none", input |-> <<>>, clean |-> <<>>, again |-> <<>>,
     file |-> [ok |-> TRUE, str |-> <<>>]]

InitCommon ==
    /\ naming = NoNaming
    /\ maxAge \in MaxAges
    /\ now = 0
    /\ calls = [c \in Callers |-> IdleCall]
    /\ last = NoLast
    /\ ncalls = 0
    /\ nreq = 0
    /\ netFailed = FALSE
    /\ overlapped = FALSE

\* an instance constructed over a storage directory in any condition
Init ==
    /\ InitCommon
    /\ disk \in [Entries -> [data : InitDataTexts, meta : InitMetas]]
    /\ dirs \in SUBSET {e[1] : e \in Entries}
    /\ \A e \in Entries : disk[e] # EmptyEntry => e[1] \in dirs

\* an instance constructed over an empty storage directory
InitEmpty ==
    /\ InitCommon
    /\ disk = [e \in Entries |-> EmptyEntry]
    /\ dirs = {}

----------------------------------------------------------------------------
(* Operations *)

\* the record of a call that has returned: out is how it ended, resp the
\* response it got from the network, if any
Finished(call, resp, out, t) ==
    [order |-> call.order, after |-> call.after, urlPath |-> call.urlPath,
     folderName |-> call.folderName, pre |-> call.pre,
     via |-> call.via, issued |-> call.issued, resp |-> resp,
     status |-> out.status, val |-> out.val, err |-> out.err, t1 |-> t]

\* callers are interchangeable: the next call is made by the first caller
\* that has no call in flight
NextCaller(c) ==
    /\ calls[c].pc = "idle"
    /\ \A d \in Callers : d < c => calls[d].pc = "fetching"

\* getData(urlPath, folderName, option), up to its return or to the point
\* where it awaits the network
Call(c, urlPath, folderName, option) ==
    /\ ncalls < MaxCalls
    /\ NextCaller(c)
    /\ ncalls' = ncalls + 1
    /\ LET started == [IdleCall EXCEPT !.urlPath = urlPath, !.folderName = folderName,
                                       !.option = option, !.order = ncalls + 1,
                                       !.after = last.order]
       IN  IF ~fileBase(urlPath).ok
           THEN \* decodeURIComponent throws before anything else happens
                /\ last' = Finished(started, NoResponse, Rejected("URIError"), now)
                /\ UNCHANGED <<calls, dirs, nreq, overlapped>>
           ELSE LET entry == disk[entryOf(urlPath, folderName)]
                    call == [started EXCEPT !.pre = entry]
                IN  \E out \in checkExistFileAndServeCache(entry, maxAge, now) :
                      /\ dirs' = dirs \cup {folderPath(folderName)}
                      /\ IF out.status = "fetch"
                         THEN /\ calls' = [calls EXCEPT ![c] =
                                     [call EXCEPT !.pc = "fetching", !.via = out.via,
                                                  !.issued = 1,
                                                  !.reqUrl = requestUrl(urlPath),
                                                  !.reqOption = forwardedOption(option)]]
                              /\ nreq' = nreq + 1
                              /\ overlapped' =
                                     (overlapped \/ \E d \in Callers : calls[d].pc = "fetching")
                              /\ UNCHANGED last
                         ELSE /\ last' = Finished(call, NoResponse, out, now)
                              /\ UNCHANGED <<calls, nreq, overlapped>>
    /\ UNCHANGED <<maxAge, now, disk, netFailed, naming>>

\* a getData that answers a failed request with one more request
Respond_Refetch(c, resp) ==
    /\ calls[c].pc = "fetching"
    /\ IF resp.kind = "error" /\ calls[c].issued <= MaxCalls
       THEN /\ calls' = [calls EXCEPT ![c].issued = @ + 1]
            /\ nreq' = nreq + 1
            /\ netFailed' = TRUE
            /\ UNCHANGED <<disk, last>>
       ELSE LET e == entryOf(calls[c].urlPath, calls[c].folderName)
            IN  /\ disk' = [disk EXCEPT ![e] = entryAfterResponse(disk[e], resp, now)]
                /\ last' = Finished(calls[c], resp,
                                    outcomeAfterFetch(disk[e], resp, calls[c].via), now)
                /\ calls' = [calls EXCEPT ![c] = IdleCall]
                /\ netFailed' = (netFailed \/ resp.kind = "error")
                /\ UNCHANGED nreq
    /\ UNCHANGED <<maxAge, now, dirs, ncalls, overlapped, naming>>

\* the network request of caller c completes with resp; getData runs to its
\* return
Respond(c, resp) ==
    /\ calls[c].pc = "fetching"
    /\ LET e == entryOf(calls[c].urlPath, calls[c].folderName)
       IN  /\ disk' = [disk EXCEPT ![e] = entryAfterResponse(disk[e], resp, now)]
           /\ last' = Finished(calls[c], resp,
                               outcomeAfterFetch(disk[e], resp, calls[c].via), now)
    /\ calls' = [calls EXCEPT ![c] = IdleCall]
    /\ netFailed' = (netFailed \/ resp.kind = "error")
    /\ UNCHANGED <<maxAge, now, dirs, ncalls, nreq, overlapped, naming>>

\* time passes while a call is still to be made or to be answered
Tick ==
    /\ ncalls < MaxCalls \/ \E c \in Callers : calls[c].pc = "fetching"
    /\ \E t \in Instants : t > now /\ now' = t
    /\ UNCHANGED <<maxAge, dirs, disk, calls, last, ncalls, nreq, netFailed, overlapped,
                   naming>>

Next ==
    \/ \E c \in Callers, p \in UrlPaths, f \in FolderNames, o \in Options : Call(c, p, f, o)
    \/ \E c \in Callers, resp \in Responses : Respond(c, resp)
    \/ Tick

Spec == Init /\ [][Next]_vars

SpecEmpty == InitEmpty /\ [][Next]_vars

----------------------------------------------------------------------------
(* File naming on its own: the names getData computes from a request path *)

\* a request path is given, nothing is computed yet
InitNames ==
    /\ naming \in {[NoNaming EXCEPT !.stage = "input", !.input = x] : x \in PathStrings}
    /\ maxAge = NoMaxAge
    /\ now = 0
    /\ calls = [c \in Callers |-> IdleCall]
    /\ last = NoLast
    /\ ncalls = 0
    /\ nreq = 0
    /\ netFailed = FALSE
    /\ overlapped = FALSE
    /\ disk = [e \in Entries |-> EmptyEntry]
    /\ dirs = {}

NamingFrame ==
    UNCHANGED <<maxAge, now, dirs, disk, calls, last, ncalls, nreq, netFailed, overlapped>>

\* this.sanitizeFilename(urlPath)
Sanitize ==
    /\ naming.stage = "input"
    /\ naming' = [naming EXCEPT !.stage = "sanitized",
                                !.clean = sanitizeFilename(naming.input)]
    /\ NamingFrame

\* this.sanitizeFilename applied to its own result
Resanitize ==
    /\ naming.stage = "sanitized"
    /\ naming' = [naming EXCEPT !.stage = "resanitized",
                                !.again = sanitizeFilename(naming.clean)]
    /\ NamingFrame

\* the fileName of getData(urlPath, ...)
NameFile ==
    /\ naming.stage = "input"
    /\ naming' = [naming EXCEPT !.stage = "named", !.file = dataFileName(naming.input)]
    /\ NamingFrame

NextNames == Sanitize \/ Resanitize \/ NameFile

SpecNames == InitNames /\ [][NextNames]_vars

----------------------------------------------------------------------------
(* Callers that ask for several request paths *)

\* a storage directory where each entry is absent or was written at time 0
InitPaths ==
    /\ InitCommon
    /\ disk \in [ManyEntries -> {EmptyEntry, saveData(EmptyEntry, JObj1, 0)}]
    /\ dirs = {e[1] : e \in {x \in ManyEntries : disk[x] # EmptyEntry}}

NextPaths ==
    \/ \E c \in Callers, p \in ManyPaths, f \in FolderNames : Call(c, p, f, EmptyOption)
    \/ \E c \in Callers, resp \in Responses : Respond(c, resp)
    \/ Tick

SpecPaths == InitPaths /\ [][NextPaths]_vars

TypeOK ==
    /\ maxAge \in MaxAges
    /\ now \in Instants
    /\ ncalls \in 0..MaxCalls
    /\ nreq \in 0..MaxCalls
    /\ \A c \in Callers : calls[c].pc \in {"idle", "fetching"}

----------------------------------------------------------------------------
(* Vocabulary of the properties *)

\* this step starts a getData call
CallStarts == ncalls' = ncalls + 1
\* the call started in this step returned in the same step, without awaiting
StartedReturned == CallStarts /\ last'.order = ncalls'
\* the call started in this step issued its network request
StartedFetching ==
    CallStarts /\ \E c \in Callers : calls'[c].order = ncalls' /\ calls'[c].pc = "fetching"
\* the entry the started call addresses, as it was when the call began
StartedPre ==
    IF last'.order = ncalls' THEN last'.pre
    ELSE calls'[CHOOSE c \in Callers : calls'[c].order = ncalls'].pre
StartedPath ==
    IF last'.order = ncalls' THEN last'.urlPath
    ELSE calls'[CHOOSE c \in Callers : calls'[c].order = ncalls'].urlPath
\* the network request of caller c is answered in this step
Answered(c) ==
    calls[c].pc = "fetching" /\ calls'[c].pc = "idle" /\ last'.order = calls[c].order
\* the entry of the call caller c has in flight
EntryOfCall(c) == entryOf(calls[c].urlPath, calls[c].folderName)
\* the entry of the call that returned most recently
LastEntry == entryOf(last.urlPath, last.folderName)
\* a data artifact that exists and parses
ValidData(text) == text # NoFile /\ JsonParse(text).ok

----------------------------------------------------------------------------
(* Properties *)

\* C1 (warm hit): on an instance with a freshness window over an empty storage
\* directory, when the first call was answered by the origin and the second
\* call for the same path starts within the window, the second call returns
\* without a network request, with the value the first returned, and one
\* request has been issued in total.
C1_WarmHit ==
    [][(/\ maxAge.set
        /\ ncalls = 1 /\ last.order = 1
        /\ last.status = "resolved" /\ last.resp.kind = "ok"
        /\ CallStarts
        /\ StartedPath = last.urlPath
        /\ now - last.t1 < maxAge.sec * MsPerSecond)
       => (/\ StartedReturned
           /\ last'.issued = 0
           /\ last'.status = "resolved"
           /\ last'.val = last.val
           /\ nreq' = 1)]_vars

\* C2 (cold start): a call that found no data artifact and whose request is
\* answered with a JSON value has issued one request, returns that value, and
\* leaves the data artifact holding the value and the metadata artifact
\* holding the time of the write.
C2_ColdStartPersists ==
    [][\A c \in Callers :
        (Answered(c) /\ calls[c].pre.data = NoFile /\ last'.resp.kind = "ok")
        => (/\ last'.issued = 1
            /\ last'.status = "resolved"
            /\ last'.val = last'.resp.val
            /\ JsonParse(disk'[EntryOfCall(c)].data) = [ok |-> TRUE, val |-> last'.resp.val]
            /\ disk'[EntryOfCall(c)].meta = MetaStringify(now))]_vars

\* C3 (staleness): with a freshness window of w > 0 seconds, a call made w
\* seconds or more after the entry was written issues a network request, and
\* when the request is answered with a JSON value the data artifact holds that
\* value and lastFetched is the time of the new write, later than the old one.
C3_Staleness ==
    [][/\ (/\ MaxAgeTruthy(maxAge)
           /\ CallStarts
           /\ ValidData(StartedPre.data)
           /\ StartedPre.meta.kind = "lf"
           /\ now - StartedPre.meta.lf >= maxAge.sec * MsPerSecond)
          => StartedFetching
       /\ \A c \in Callers :
            (Answered(c) /\ calls[c].via = "stale" /\ last'.resp.kind = "ok")
            => (/\ JsonParse(disk'[EntryOfCall(c)].data) =
                       [ok |-> TRUE, val |-> last'.resp.val]
                /\ disk'[EntryOfCall(c)].meta = MetaStringify(now)
                /\ now > calls[c].pre.meta.lf)]_vars

\* C4 (no expiry): without a freshness window, a call on an entry whose data
\* artifact parses returns its content without a network request, whatever
\* the time and the metadata; and over calls made one after the other on an
\* empty storage directory with an origin that always answers, one request is
\* issued in all.
C4_NoExpiry ==
    [][/\ (~maxAge.set /\ CallStarts /\ ValidData(StartedPre.data))
          => (/\ StartedReturned
              /\ last'.status = "resolved"
              /\ last'.val = JsonParse(StartedPre.data).val
              /\ nreq' = nreq)
       /\ (~maxAge.set /\ ~netFailed' /\ ~overlapped' /\ last'.order >= 1)
          => nreq' = 1]_vars

\* C5 (fallback on failure): when the network path of a call fails while the
\* data artifact holds a valid JSON value, the call returns that value and
\* the artifact is left as it was.
C5_FallbackOnFailure ==
    [][\A c \in Callers :
        (/\ Answered(c)
         /\ last'.resp.kind = "error"
         /\ ValidData(disk[EntryOfCall(c)].data))
        => (/\ last'.status = "resolved"
            /\ last'.val = JsonParse(disk[EntryOfCall(c)].data).val
            /\ disk' = disk)]_vars

\* a refresh of a stale entry failed and the call returned the cached value
C5_Witness ==
    /\ last.resp.kind = "error"
    /\ last.via = "stale"
    /\ last.status = "resolved"
    /\ ValidData(disk[LastEntry].data)
    /\ last.val = JsonParse(disk[LastEntry].data).val

C7_UnknownFreshnessRefetches ==
    [][(/\ MaxAgeTruthy(maxAge)
        /\ CallStarts
        /\ StartedPre.data # NoFile
        /\ StartedPre.meta.kind \in {"absent", "garbage", "null", "nolf"})
       => StartedFetching]_vars

\* C8 (a successful return yields a JSON value): a call that resolves yields
\* the body of the response it obtained or the content of the entry's data
\* artifact, never undefined.
C8_ResolvesWithJsonValue ==
    [][(last'.order # last.order /\ last'.status = "resolved")
       => (/\ last'.val \in JsonValues
           /\ \/ last'.resp.kind = "ok" /\ last'.val = last'.resp.val
              \/ LET text == disk'[entryOf(last'.urlPath, last'.folderName)].data
                 IN  ValidData(text) /\ last'.val = JsonParse(text).val)]_vars

\* C9 (request options passthrough): every network request a call issues
\* targets basePath + "/" + urlPath and carries the option the caller gave.
C9_OptionsPassthrough ==
    \A c \in Callers :
        calls[c].pc = "fetching"
        => (/\ calls[c].reqUrl = basePath \o <<"/">> \o calls[c].urlPath
            /\ calls[c].reqOption = calls[c].option)

\* C10 (original error surfaced): a call that rejects after its network path
\* failed rejects with the error of the network path.
C10_OriginalErrorSurfaced ==
    (last.status = "rejected" /\ last.resp.kind = "error") => last.err = last.resp.err

\* C11 (freshness boundary): with a freshness window of w > 0 seconds, a call
\* on an entry with valid data and lastFetched = t is served from disk without
\* a network request exactly when the signed age now - t is below w seconds,
\* and fetches otherwise.
C11_FreshnessBoundary ==
    [][(/\ MaxAgeTruthy(maxAge)
        /\ CallStarts
        /\ ValidData(StartedPre.data)
        /\ StartedPre.meta.kind = "lf")
       => IF now - StartedPre.meta.lf < maxAge.sec * MsPerSecond
          THEN /\ StartedReturned
               /\ last'.issued = 0
               /\ last'.status = "resolved"
               /\ last'.val = JsonParse(StartedPre.data).val
          ELSE StartedFetching]_vars

\* every entry has both artifacts or neither, and existing metadata holds a
\* lastFetched
Paired ==
    \A e \in DOMAIN disk :
        /\ disk[e].data = NoFile <=> disk[e].meta = NoMeta
        /\ disk[e].data # NoFile => disk[e].meta.kind = "lf"

\* C12 (artifact pairing): from an empty storage directory, in every state the
\* metadata artifact of an entry exists exactly when its data artifact does,
\* and every step that writes an entry leaves its data artifact present and
\* its lastFetched equal to the time of that step.
C12_ArtifactPairing ==
    [][/\ Paired
       /\ Paired'
       /\ \A e \in DOMAIN disk :
            disk'[e] # disk[e]
            => (/\ disk'[e].data # NoFile
                /\ disk'[e].meta = MetaStringify(now'))]_vars

\* two calls overlapped and an entry holds both artifacts, written when the
\* last call returned
C12_Witness ==
    /\ overlapped
    /\ last.resp.kind = "ok"
    /\ disk[LastEntry].data = JsonStringify(last.resp.val)
    /\ disk[LastEntry].meta = MetaStringify(last.t1)
    /\ last.t1 > 0

\* the names the rule allows for a request path: sanitize applied to the path
\* or to the percent-decoded path, followed by ".json"
AllowedFileNames(urlPath) ==
    {sanitizeFilename(urlPath) \o JsonSuffix}
    \cup (IF decodeURIComponent(urlPath).ok
          THEN {sanitizeFilename(decodeURIComponent(urlPath).str) \o JsonSuffix}
          ELSE {})

\* C13 (safe file identity): for every request path, computing the data
\* artifact's file name raises no error, the name is sanitize of the path or
\* of the percent-decoded path followed by ".json", it holds no unsafe
\* character and no whitespace, and it does not begin with "_".
C13_SafeFileIdentity ==
    naming.stage = "named"
    => (/\ naming.file.ok
        /\ naming.file.str \in AllowedFileNames(naming.input)
        /\ \A i \in 1..Len(naming.file.str) :
               naming.file.str[i] \notin UnsafeChars \cup WhitespaceChars
        /\ naming.file.str[1] # "_")

\* C14 (filename stability): sanitizing a sanitized name changes nothing.
C14_SanitizeIdempotent ==
    naming.stage = "resanitized" => naming.again = naming.clean

\* a path that begins with an unsafe character and keeps something after
\* sanitizing has been sanitized twice
C14_Witness ==
    /\ naming.stage = "resanitized"
    /\ Len(naming.input) = MaxPathLen
    /\ naming.input[1] \in UnsafeChars
    /\ naming.input[2] \in WhitespaceChars
    /\ naming.clean # <<>>
    /\ naming.again = naming.clean

\* C15 (unique file identity): a call that starts after a call for another
\* request path in the same folder has returned uses another data-artifact
\* file name; and a call served from disk with what the call before it
\* fetched and wrote was made for the request path of that call.
C15_UniqueFileIdentity ==
    [][/\ (/\ CallStarts
           /\ last.order >= 1
           /\ dataFileName(last.urlPath).ok
           /\ dataFileName(StartedPath).ok
           /\ StartedPath # last.urlPath)
          => dataFileName(StartedPath) # dataFileName(last.urlPath)
       /\ (/\ StartedReturned
           /\ last'.issued = 0
           /\ last'.status = "resolved"
           /\ last.resp.kind = "ok"
           /\ Truthy(last.resp.val)
           /\ last'.folderName = last.folderName
           /\ last'.pre = saveData(last.pre, last.resp.val, last.t1))
          => last'.urlPath = last.urlPath]_vars

\* C18 (frame of getData): no step removes an artifact; a step in which a
\* call starts, whether it is served from disk or goes to the network, and a
\* step in which a request fails, leave every artifact as it was; a step in
\* which a request is answered changes no entry but the one of its call.
C18_Frame ==
    [][/\ \A e \in DOMAIN disk :
            /\ disk[e].data # NoFile => disk'[e].data # NoFile
            /\ disk[e].meta # NoMeta => disk'[e].meta # NoMeta
       /\ CallStarts => disk' = disk
       /\ \A c \in Callers :
            /\ (Answered(c) /\ last'.resp.kind # "ok") => disk' = disk
            /\ (Answered(c) /\ last'.resp.kind = "ok")
               => \A e \in DOMAIN disk : e # EntryOfCall(c) => disk'[e] = disk[e]]_vars

\* after a failed request, a fetch wrote one entry at a later time while the
\* other entry is still as it was when the directory was opened
C18_Witness ==
    /\ netFailed
    /\ last.resp.kind = "ok"
    /\ last.t1 > 0
    /\ disk[LastEntry] = saveData(last.pre, last.resp.val, last.t1)
    /\ \E e \in DOMAIN disk :
         /\ e # LastEntry
         /\ disk[e] = saveData(EmptyEntry, JObj1, 0)

\* a call started in this step finds the entry missing, or stale under a
\* freshness window
StartedOnMissingOrStale ==
    \/ StartedPre.data = NoFile
    \/ /\ MaxAgeTruthy(maxAge)
       /\ ValidData(StartedPre.data)
       /\ StartedPre.meta.kind = "lf"
       /\ now - StartedPre.meta.lf >= maxAge.sec * MsPerSecond

\* C16 (concurrent calls on one entry): a call that starts on a missing or
\* stale entry while another call for that entry awaits its response issues
\* its own request; a step that writes an entry writes its data and its
\* metadata from the same call; and when the later of two overlapping
\* answered calls returns, the data artifact holds its response.
C16_ConcurrentCalls ==
    [][/\ (/\ CallStarts
           /\ \E d \in Callers : calls[d].pc = "fetching"
           /\ StartedOnMissingOrStale)
          => (StartedFetching /\ nreq' = nreq + 1)
       /\ \A c \in Callers : \A e \in DOMAIN disk :
            (Answered(c) /\ disk'[e] # disk[e])
            => (/\ e = EntryOfCall(c)
                /\ disk'[e].data = JsonStringify(last'.resp.val)
                /\ disk'[e].meta = MetaStringify(now))
       /\ (~ \E c \in Callers : Answered(c)) => disk' = disk
       /\ \A c \in Callers :
            (/\ Answered(c)
             /\ calls[c].after < last.order
             /\ last.resp.kind = "ok"
             /\ last'.resp.kind = "ok")
            => JsonParse(disk'[EntryOfCall(c)].data) =
                   [ok |-> TRUE, val |-> last'.resp.val]]_vars

\* C17 (one fetch per call, termination): a step that starts a call issues at
\* most one request; a call awaiting the network has issued exactly one; the
\* step in which its request completes issues no further request and ends
\* the call, resolved or rejected, with one request issued in all; and no
\* more requests have been issued than calls started.
C17_OneFetchPerCall ==
    [][/\ nreq' <= ncalls'
       /\ CallStarts => (/\ nreq' <= nreq + 1
                         /\ StartedReturned => (last'.issued = 0 /\ nreq' = nreq)
                         /\ StartedReturned \/ StartedFetching)
       /\ \A c \in Callers :
            /\ calls'[c].pc = "fetching" => calls'[c].issued = 1
            /\ calls[c].pc = "fetching"
               => \/ UNCHANGED <<calls[c], nreq>>
                  \/ /\ CallStarts
                     /\ calls'[c] = calls[c]
                  \/ /\ Answered(c)
                     /\ nreq' = nreq
                     /\ last'.issued = 1
                     /\ last'.status \in {"resolved", "rejected"}]_vars

\* a call that re-entered getData from the freshness check, issued its one
\* request, saw it fail and returned, after as many requests as calls
C17_Witness ==
    /\ last.via = "stale"
    /\ last.resp.kind = "error"
    /\ last.issued = 1
    /\ last.status \in {"resolved", "rejected"}
    /\ ncalls = MaxCalls
    /\ nreq = ncalls
    /\ \A c \in Callers : calls[c].pc = "idle"

\* a data artifact that exists and is empty or does not parse
UnusableData(text) == text # NoFile /\ (text = EmptyText \/ ~JsonParse(text).ok)

\* C19 (no silent success on an unusable fallback): when the request of a
\* call fails while the data artifact exists and is empty or does not parse,
\* the call rejects, whether it went to the network on a miss or from the
\* freshness check.
C19_NoSilentSuccess ==
    [][\A c \in Callers :
        (/\ Answered(c)
         /\ last'.resp.kind = "error"
         /\ UnusableData(disk[EntryOfCall(c)].data))
        => last'.status = "rejected"]_vars

\* C20 (only an absent window means valid forever): on an instance built with
\* a freshness window of w >= 0 seconds, 0 included, a call on an existing
\* entry whose age is w seconds or more issues a network request.
C20_ZeroWindowRefetches ==
    [][(/\ maxAge.set
        /\ CallStarts
        /\ ValidData(StartedPre.data)
        /\ StartedPre.meta.kind = "lf"
        /\ now - StartedPre.meta.lf >= maxAge.sec * MsPerSecond)
       => StartedFetching]_vars

====
